---- MODULE Spec2Model ----
(***************************************************************************)
(* Model of src/main.py: the text extractor extract_text and the support   *)
(* pipeline run_support_flow (triage -> responder -> guardrail).           *)
(*                                                                         *)
(* Python strings are TLA+ strings; TLC evaluates Len, \o, Head, Tail and  *)
(* SubSeq on them character by character.  Python values reaching          *)
(* extract_text are records tagged by "kind":                              *)
(*   none | str | num | dict | list | obj                                  *)
(* A dict keeps its insertion order (a sequence of key/value pairs), an    *)
(* obj has attributes (a function from attribute names to values) and the  *)
(* text that str() gives for it.                                           *)
(***************************************************************************)
EXTENDS Integers, Sequences, FiniteSets, TLC

VARIABLES
    pc,             \* position of run_support_flow
    awaiting,       \* name of the agent whose Runner.run is being awaited, or ""
    ctx,            \* the request context argument (never read by the flow)
    user_input,     \* the user text argument
    triage_run,     \* envelope returned by the triage call
    triage_text,    \* local triage_text
    selected_agent, \* local selected_agent (agent name)
    agent_run,      \* envelope returned by the selected responder
    agent_reply,    \* local agent_reply (the candidate reply)
    guard_run,      \* envelope returned by the guardrail call
    final,          \* local final
    exc,            \* the exception caught at line 265, if any
    outcome,        \* how the coroutine ended: "running", "returned", "raised"
    result,         \* the returned string
    calls,          \* agents Runner.run was invoked on, in order
    probe_pc,       \* position of a direct call of extract_text
    run_result,     \* argument of the direct call of extract_text
    extracted       \* outcome of the direct call of extract_text

vars == <<pc, awaiting, ctx, user_input, triage_run, triage_text,
          selected_agent, agent_run, agent_reply, guard_run, final, exc,
          outcome, result, calls, probe_pc, run_result, extracted>>

flowVars == <<pc, awaiting, ctx, user_input, triage_run, triage_text,
              selected_agent, agent_run, agent_reply, guard_run, final, exc,
              outcome, result, calls>>

probeVars == <<probe_pc, run_result, extracted>>

---------------------------------------------------------------------------
(* Bounds of the generated envelopes. *)

\* longest fragment list carried by one generated message
MaxFragments == 2

\* longest message list carried by one generated envelope
MaxMessages == 2

---------------------------------------------------------------------------
(* Python str operations. *)

CharAt(s, i) == SubSeq(s, i, i)

\* characters str.strip() and str.split() treat as whitespace
Whitespace == {" ", "\t", "\n", "\r", "\f"}

UpperAlpha == "ABCDEFGHIJKLMNOPQRSTUVWXYZ"

LowerAlpha == "abcdefghijklmnopqrstuvwxyz"

lower_char(c) ==
    IF \E i \in 1..Len(UpperAlpha) : CharAt(UpperAlpha, i) = c
    THEN CharAt(LowerAlpha, CHOOSE i \in 1..Len(UpperAlpha) : CharAt(UpperAlpha, i) = c)
    ELSE c

\* the two halves of a string of two or more characters
Left(s) == SubSeq(s, 1, Len(s) \div 2)

Right(s) == SubSeq(s, Len(s) \div 2 + 1, Len(s))

RECURSIVE lower(_)
\* str.lower(), character by character
lower(s) ==
    IF s = "" THEN ""
    ELSE IF Len(s) = 1 THEN lower_char(s)
    ELSE lower(Left(s)) \o lower(Right(s))

\* str.strip(): from the first to the last non-whitespace character
strip(s) ==
    IF \A i \in 1..Len(s) : CharAt(s, i) \in Whitespace THEN ""
    ELSE LET first == CHOOSE i \in 1..Len(s) :
                        /\ CharAt(s, i) \notin Whitespace
                        /\ \A j \in 1..(i - 1) : CharAt(s, j) \in Whitespace
             last  == CHOOSE i \in 1..Len(s) :
                        /\ CharAt(s, i) \notin Whitespace
                        /\ \A j \in (i + 1)..Len(s) : CharAt(s, j) \in Whitespace
         IN  SubSeq(s, first, last)

\* sub in s
Contains(sub, s) ==
    \E i \in 0..(Len(s) - Len(sub)) : SubSeq(s, i + 1, i + Len(sub)) = sub

\* len(s.split()): the number of maximal runs of non-whitespace characters
WordCount(s) ==
    Cardinality({ i \in 1..Len(s) :
        /\ CharAt(s, i) \notin Whitespace
        /\ (i = 1 \/ CharAt(s, i - 1) \in Whitespace) })

RECURSIVE Join(_, _)
\* sep.join(texts)
Join(sep, texts) ==
    IF texts = <<>> THEN ""
    ELSE IF Len(texts) = 1 THEN texts[1]
    ELSE texts[1] \o sep \o Join(sep, Tail(texts))

\* s[:n]
Take(s, n) == IF Len(s) <= n THEN s ELSE SubSeq(s, 1, n)

---------------------------------------------------------------------------
(* Python values. *)

None == [kind |-> "none"]

Str(s) == [kind |-> "str", s |-> s]

\* a number; lit is its literal, which json.dumps and repr() both print
Num(lit) == [kind |-> "num", lit |-> lit]

\* pairs is a sequence of <<key, value>> with distinct string keys
Dict(pairs) == [kind |-> "dict", pairs |-> pairs]

List(items) == [kind |-> "list", items |-> items]

\* attrs maps attribute names to values; repr is str(object)
Obj(attrs, repr) == [kind |-> "obj", attrs |-> attrs, repr |-> repr]

NoAttrs == [a \in {} |-> None]

IsStr(v) == v.kind = "str"

\* hasattr(v, name): built-in str, dict and list values expose none of the
\* attribute names the extractor probes
hasattr(v, name) == v.kind = "obj" /\ name \in DOMAIN v.attrs

getattr(v, name) == v.attrs[name]

\* k in d
DictHas(d, k) == \E i \in 1..Len(d.pairs) : d.pairs[i][1] = k

\* d[k]
DictGet(d, k) == d.pairs[CHOOSE i \in 1..Len(d.pairs) : d.pairs[i][1] = k][2]

---------------------------------------------------------------------------
(* json.dumps and str(). *)

\* escape of one character inside a JSON string (ensure_ascii output of the
\* ASCII characters the model uses)
JsonEscapeChar(c) ==
    CASE c = "\"" -> "\\\""
      [] c = "\\" -> "\\\\"
      [] c = "\n" -> "\\n"
      [] c = "\t" -> "\\t"
      [] c = "\r" -> "\\r"
      [] c = "\f" -> "\\f"
      [] OTHER -> c

RECURSIVE JsonEscape(_)
JsonEscape(s) ==
    IF s = "" THEN ""
    ELSE IF Len(s) = 1 THEN JsonEscapeChar(s)
    ELSE JsonEscape(Left(s)) \o JsonEscape(Right(s))

\* json.dumps of a str: the text between double quotes
JsonStr(s) == "\"" \o JsonEscape(s) \o "\""

\* outcome of a serialisation: ok is FALSE when json.dumps raises TypeError
Dumped(s) == [ok |-> TRUE, s |-> s]

NotSerializable == [ok |-> FALSE, s |-> ""]

\* open \o r.s \o close, unless r failed
Bracket(open, r, close) ==
    IF r.ok THEN Dumped(open \o r.s \o close) ELSE NotSerializable

\* h followed by the remaining elements t, rest telling whether there are any
Sequenced(h, rest, t) ==
    IF h.ok /\ t.ok
    THEN Dumped(IF rest THEN h.s \o ", " \o t.s ELSE h.s)
    ELSE NotSerializable

\* "key": value
Keyed(key, h) == IF h.ok THEN Dumped(JsonStr(key) \o ": " \o h.s) ELSE NotSerializable

RECURSIVE JsonDumps(_)
RECURSIVE JsonDumpsItems(_)
RECURSIVE JsonDumpsPairs(_)

\* json.dumps(v); an object inside v is not serializable
JsonDumps(v) ==
    CASE v.kind = "none" -> Dumped("null")
      [] v.kind = "str"  -> Dumped(JsonStr(v.s))
      [] v.kind = "num"  -> Dumped(v.lit)
      [] v.kind = "list" -> Bracket("[", JsonDumpsItems(v.items), "]")
      [] v.kind = "dict" -> Bracket("{", JsonDumpsPairs(v.pairs), "}")
      [] OTHER -> NotSerializable

JsonDumpsItems(items) ==
    IF items = <<>> THEN Dumped("")
    ELSE Sequenced(JsonDumps(Head(items)), Len(items) > 1, JsonDumpsItems(Tail(items)))

JsonDumpsPairs(pairs) ==
    IF pairs = <<>> THEN Dumped("")
    ELSE Sequenced(Keyed(Head(pairs)[1], JsonDumps(Head(pairs)[2])),
                   Len(pairs) > 1, JsonDumpsPairs(Tail(pairs)))

\* escape of one character inside repr() of a str; q is the quote in use
ReprEscapeChar(c, q) ==
    CASE c = q    -> "\\" \o q
      [] c = "\\" -> "\\\\"
      [] c = "\n" -> "\\n"
      [] c = "\t" -> "\\t"
      [] c = "\r" -> "\\r"
      [] c = "\f" -> "\\x0c"
      [] OTHER -> c

RECURSIVE ReprEscape(_, _)
ReprEscape(s, q) ==
    IF s = "" THEN ""
    ELSE IF Len(s) = 1 THEN ReprEscapeChar(s, q)
    ELSE ReprEscape(Left(s), q) \o ReprEscape(Right(s), q)

\* s between two quotes q
Quoted(s, q) == q \o ReprEscape(s, q) \o q

\* repr() of a str: single quotes, unless it has a single and no double quote
ReprStr(s) ==
    Quoted(s, IF Contains("'", s) /\ ~Contains("\"", s) THEN "\"" ELSE "'")

RECURSIVE PyRepr(_)
RECURSIVE PyReprItems(_)
RECURSIVE PyReprPairs(_)

\* repr(v); an object shows the same text as str() of it
PyRepr(v) ==
    CASE v.kind = "none" -> "None"
      [] v.kind = "str"  -> ReprStr(v.s)
      [] v.kind = "num"  -> v.lit
      [] v.kind = "list" -> "[" \o PyReprItems(v.items) \o "]"
      [] v.kind = "dict" -> "{" \o PyReprPairs(v.pairs) \o "}"
      [] OTHER -> v.repr

PyReprItems(items) ==
    IF items = <<>> THEN ""
    ELSE PyRepr(Head(items))
         \o (IF Len(items) = 1 THEN "" ELSE ", " \o PyReprItems(Tail(items)))

PyReprPairs(pairs) ==
    IF pairs = <<>> THEN ""
    ELSE ReprStr(Head(pairs)[1]) \o ": " \o PyRepr(Head(pairs)[2])
         \o (IF Len(pairs) = 1 THEN "" ELSE ", " \o PyReprPairs(Tail(pairs)))

\* str(v)
PyStr(v) == IF v.kind = "str" THEN v.s ELSE PyRepr(v)

---------------------------------------------------------------------------
(* extract_text, src/main.py lines 34-155. *)

candidate_attrs ==
    <<"output_text", "final_output_text", "final_output", "output",
      "text", "reply", "result", "response">>

\* outcome of one strategy: it raised, it found text, or it found nothing
NotFound == [raised |-> FALSE, found |-> FALSE, text |-> ""]

Found(t) == [raised |-> FALSE, found |-> TRUE, text |-> t]

Raises == [raised |-> TRUE, found |-> FALSE, text |-> "AttributeError"]

\* a, unless it neither raised nor found anything: then b
OrElse(a, b) == IF a.raised \/ a.found THEN a ELSE b

\* "if t: return t"
FoundIfNonEmpty(t) == IF t # "" THEN Found(t) ELSE NotFound

\* "isinstance(val, str) and val.strip()" then "val.strip()"
ProbeStr(val) == IF IsStr(val) THEN FoundIfNonEmpty(strip(val.s)) ELSE NotFound

\* what d[k] yields when k is in d and d[k] is a non-blank str
ProbeKey(d, k) == IF DictHas(d, k) THEN ProbeStr(DictGet(d, k)) ELSE NotFound

\* the texts an outcome adds to a list being collected
TextsOf(p) == IF p.found THEN <<p.text>> ELSE <<>>

RECURSIVE FirstDictText(_, _)
\* lines 62-64: the first of keys whose value in d is a non-blank str
FirstDictText(d, keys) ==
    IF keys = <<>> THEN NotFound
    ELSE OrElse(ProbeKey(d, Head(keys)), FirstDictText(d, Tail(keys)))

RECURSIVE AllDictTexts(_, _)
\* lines 79-81: every one of keys whose value in d is a non-blank str
AllDictTexts(d, keys) ==
    IF keys = <<>> THEN <<>>
    ELSE TextsOf(ProbeKey(d, Head(keys))) \o AllDictTexts(d, Tail(keys))

\* lines 76-81: texts of one element of a list-valued attribute
ItemTexts(item) ==
    IF item.kind = "dict" THEN AllDictTexts(item, <<"text", "content", "message">>)
    ELSE TextsOf(ProbeStr(item))

RECURSIVE ListTexts(_)
\* lines 74-81: texts collected from a list-valued attribute
ListTexts(items) ==
    IF items = <<>> THEN <<>>
    ELSE ItemTexts(Head(items)) \o ListTexts(Tail(items))

\* lines 82-83 and 122-123: "if texts: return '\n'.join(texts)"
JoinedIfAny(texts) == IF texts # <<>> THEN Found(Join("\n", texts)) ELSE NotFound

\* lines 66-71: json.dumps of a dict-valued attribute, a failure is passed over
DumpedIfAny(j) == IF j.ok /\ j.s # "" THEN Found(j.s) ELSE NotFound

\* lines 57-83: what one attribute value yields
ProbeValue(val) ==
    CASE val.kind = "str"  -> ProbeStr(val)
      [] val.kind = "dict" ->
            OrElse(FirstDictText(val, <<"text", "content", "message", "reply">>),
                   DumpedIfAny(JsonDumps(val)))
      [] val.kind = "list" -> JoinedIfAny(ListTexts(val.items))
      [] OTHER -> NotFound

\* lines 55-56: the attribute, when the object has it
ProbeAttr(v, attr) == IF hasattr(v, attr) THEN ProbeValue(getattr(v, attr)) ELSE NotFound

RECURSIVE ProbeAttrs(_, _)
\* lines 54-83: the loop over candidate_attrs
ProbeAttrs(v, attrs) ==
    IF attrs = <<>> THEN NotFound
    ELSE OrElse(ProbeAttr(v, Head(attrs)), ProbeAttrs(v, Tail(attrs)))

\* strategy 1, lines 43-83
KnownFieldProbe(v) == ProbeAttrs(v, candidate_attrs)

\* outcome of collecting texts: raised is TRUE when an exception was thrown
Collected(texts) == [raised |-> FALSE, texts |-> texts]

Thrown == [raised |-> TRUE, texts |-> <<>>]

\* the texts of a followed by those of b, unless either raised
Then(a, b) ==
    IF a.raised \/ b.raised THEN Thrown ELSE Collected(a.texts \o b.texts)

\* lines 99-105: one fragment c of the content list of a dict-style message;
\* a str under "text" or "content" is kept even when it is blank
DictFragment(c) ==
    IF c.kind = "dict"
    THEN IF DictHas(c, "text") /\ IsStr(DictGet(c, "text"))
         THEN <<strip(DictGet(c, "text").s)>>
         ELSE IF DictHas(c, "content") /\ IsStr(DictGet(c, "content"))
              THEN <<strip(DictGet(c, "content").s)>>
              ELSE <<>>
    ELSE TextsOf(ProbeStr(c))

RECURSIVE DictFragments(_)
\* lines 98-105
DictFragments(content) ==
    IF content = <<>> THEN Collected(<<>>)
    ELSE Then(Collected(DictFragment(Head(content))), DictFragments(Tail(content)))

\* lines 114-117: one fragment cc of the content list of an object-style
\* message; cc["text"].strip() raises AttributeError when cc["text"] is not
\* a str, and keeps a blank str
ObjectFragment(cc) ==
    IF cc.kind = "dict" /\ DictHas(cc, "text")
    THEN IF IsStr(DictGet(cc, "text"))
         THEN Collected(<<strip(DictGet(cc, "text").s)>>)
         ELSE Thrown
    ELSE Collected(TextsOf(ProbeStr(cc)))

RECURSIVE ObjectFragments(_)
\* lines 113-117
ObjectFragments(content) ==
    IF content = <<>> THEN Collected(<<>>)
    ELSE Then(ObjectFragment(Head(content)), ObjectFragments(Tail(content)))

\* lines 94-105: the content of a dict-style message
DictContentTexts(content) ==
    CASE content.kind = "str"  -> Collected(TextsOf(ProbeStr(content)))
      [] content.kind = "list" -> DictFragments(content.items)
      [] OTHER -> Collected(<<>>)

\* lines 109-117: the content attribute of an object-style message
ObjectContentTexts(c) ==
    CASE c.kind = "str"  -> Collected(TextsOf(ProbeStr(c)))
      [] c.kind = "list" -> ObjectFragments(c.items)
      [] OTHER -> Collected(<<>>)

\* lines 92-121: texts of one message m
MessageTexts(m) ==
    IF m.kind = "dict"
    THEN DictContentTexts(IF DictHas(m, "content") THEN DictGet(m, "content") ELSE None)
    ELSE IF hasattr(m, "content") THEN ObjectContentTexts(getattr(m, "content"))
    ELSE IF hasattr(m, "text") THEN Collected(TextsOf(ProbeStr(getattr(m, "text"))))
    ELSE Collected(<<>>)

RECURSIVE MessagesTexts(_)
\* lines 90-121: the loop over a list of messages
MessagesTexts(msgs) ==
    IF msgs = <<>> THEN Collected(<<>>)
    ELSE Then(MessageTexts(Head(msgs)), MessagesTexts(Tail(msgs)))

\* lines 89-121: "for m in msgs".  Iterating a str gives its characters and
\* iterating a dict its keys, all of them str values without a content or
\* text attribute, so nothing is collected; None, a number or an object is
\* not iterable and raises TypeError.
IterateMessages(msgs) ==
    CASE msgs.kind = "list" -> MessagesTexts(msgs.items)
      [] msgs.kind \in {"str", "dict"} -> Collected(<<>>)
      [] OTHER -> Thrown

\* lines 122-123 after the loop
JoinedOrRaised(c) == IF c.raised THEN Raises ELSE JoinedIfAny(c.texts)

\* strategy 2 without its try/except, lines 86-123
MessageListBody(v) ==
    IF hasattr(v, "messages")
    THEN JoinedOrRaised(IterateMessages(getattr(v, "messages")))
    ELSE NotFound

\* lines 124-125: "except Exception: pass"
Swallow(b) == IF b.raised THEN NotFound ELSE b

\* strategy 2 with its try/except left out
MessageListProbe_unguarded(v) == MessageListBody(v)

\* strategy 2, lines 85-125
MessageListProbe(v) == Swallow(MessageListBody(v))

\* strategy 3, lines 127-146.  The first pattern, line 132, is not a valid
\* regular expression (its "(?:" group is never closed), so re.search raises
\* re.error for every s before any match is attempted; "except Exception:
\* pass" at line 145 swallows it and the strategy never returns.
PatternProbe(v) == Swallow(Raises)

\* the cap of line 150
MaxJsonLen == 10000

\* lines 150-152: the serialisation cut to the cap, a failure is passed over
CappedIfDumped(j) == IF j.ok THEN Found(Take(j.s, MaxJsonLen)) ELSE NotFound

\* strategy 4, lines 148-152
JsonProbe(v) == CappedIfDumped(JsonDumps(v))

\* strategy 5, lines 154-155
LastResort(v) == Found(strip(PyStr(v)))

\* what extract_text does: return a str, or raise
Returned(t) == [raised |-> FALSE, text |-> t]

Raised(msg) == [raised |-> TRUE, text |-> msg]

Outcome(p) == IF p.raised THEN Raised(p.text) ELSE Returned(p.text)

\* extract_text, lines 34-155: the strategies in order, each tried only when
\* the ones before it found nothing
extract_text(v) ==
    IF v.kind = "none" THEN Returned("")
    ELSE Outcome(OrElse(KnownFieldProbe(v),
                 OrElse(MessageListProbe(v),
                 OrElse(PatternProbe(v),
                 OrElse(JsonProbe(v), LastResort(v))))))

---------------------------------------------------------------------------
(* run_support_flow, src/main.py lines 210-266. *)

TriageAgent == "Triage Agent"

BillingAgent == "Billing Support Agent"

TechnicalAgent == "Technical Support Agent"

GeneralAgent == "General Support Agent"

GuardrailAgent == "Guardrail Agent"

\* the word limit of line 219
MaxWords == 50

\* the marker of lines 219, 245 and 260
LeakMarker == "runresult"

\* line 222
BillingKeywords ==
    {"refund", "charge", "invoice", "payment", "transaction", "balance", "account"}

\* line 224
TechnicalKeywords ==
    {"crash", "error", "bug", "not open", "freeze", "install", "slow"}

\* line 219: the triage output is unusable
TriageRejected(t) ==
    t = "" \/ WordCount(t) > MaxWords \/ Contains(LeakMarker, lower(t))

\* a fallback that looks for technical keywords first
KeywordFallback_techfirst(input) ==
    IF \E k \in TechnicalKeywords : Contains(k, lower(input)) THEN "technical"
    ELSE IF \E k \in BillingKeywords : Contains(k, lower(input)) THEN "billing"
    ELSE "general"

\* lines 221-227: the keyword fallback on the user text
KeywordFallback(input) ==
    IF \E k \in BillingKeywords : Contains(k, lower(input)) THEN "billing"
    ELSE IF \E k \in TechnicalKeywords : Contains(k, lower(input)) THEN "technical"
    ELSE "general"

\* lines 219-227: the fallback label when the lower-cased output t is unusable
Validated(t, input) == IF TriageRejected(t) THEN KeywordFallback(input) ELSE t

\* lines 218-227: triage_text from the extracted triage output x
Classify(x, input) == Validated(lower(x), input)

\* lines 230-235
select_agent(label) ==
    IF Contains("bill", label) THEN BillingAgent
    ELSE IF Contains("tech", label) \/ Contains("crash", label) \/ Contains("error", label)
         THEN TechnicalAgent
         ELSE GeneralAgent

\* lines 246-250
SafeFallbackReply ==
    "I cannot access your private account here. "
    \o "To check your account balance, please sign into the web portal -> Account -> Balance, "
    \o "or contact billing support at billing@example.com with your account id."

\* a responder stage that only replaces an empty reply
ResponderStage_emptyonly(x) == IF x = "" THEN SafeFallbackReply ELSE x

\* lines 243-250: agent_reply from the extracted responder output x
ResponderStage(x) ==
    IF x = "" \/ Contains(LeakMarker, lower(x)) THEN SafeFallbackReply ELSE x

\* a guardrail that takes the reviewer's text as it is
GuardrailStage_closed(x, candidate) == x

\* lines 258-261: final from the extracted reviewer output x
GuardrailStage(x, candidate) ==
    IF x = "" \/ Contains(LeakMarker, lower(x)) THEN candidate ELSE x

ErrorPrefix == "An internal error occurred while processing your request."

\* an error reply that leaves the fault's description out
ErrorReply_nodesc(msg) == ErrorPrefix

\* line 266
ErrorReply(msg) == ErrorPrefix \o " (" \o msg \o ")"

NoExc == [raised |-> FALSE, by |-> "", msg |-> ""]

\* an exception raised by the call of agent by; msg is str() of it
Exc(by, msg) == [raised |-> TRUE, by |-> by, msg |-> msg]

\* a handler that re-raises instead of returning
OnException_reraise(e) == [outcome |-> "raised", result |-> ""]

\* lines 265-266: the handler returns, it does not re-raise
OnException(e) == [outcome |-> "returned", result |-> ErrorReply(e.msg)]

\* the value of a local that is not bound yet
Unbound == [kind |-> "unbound"]

RECURSIVE Repeat(_, _)
\* s * n
Repeat(s, n) ==
    IF n = 0 THEN ""
    ELSE IF n = 1 THEN s
    ELSE Repeat(s, n \div 2) \o Repeat(s, n - n \div 2)

\* str() of an SDK result object that exposes no readable field
DebugRepr ==
    "RunResult:\n- Last agent: Agent(name=Support, ...)\n- 1 new item(s)\n(See RunResult for more details)"

BlankFragment == Dict(<< <<"text", Str("  ")>> >>)

\* a message list whose only fragment is blank
BlankMessages(n) ==
    Obj([messages |-> List(<< Dict(<< <<"content", List([i \in 1..n |-> BlankFragment])>> >>) >>)],
        "<Result object>")

\* an object carrying its text in final_output, as the SDK result does
FinalOutput(t) == Obj([final_output |-> Str(t)], DebugRepr)

\* a triage output of MaxWords + 1 words that names a category
TooManyWords == "billing" \o Repeat(" x", MaxWords)

UserInputs ==
    { "My card was charged twice",
      "Payment page shows an error",
      "The app will NOT OPEN after install",
      "How do I export my data?",
      "REFUND please",
      "hello" }

Contexts ==
    { [name |-> "", is_premium |-> FALSE], [name |-> "Ana", is_premium |-> TRUE] }

TriageEnvelopes ==
    { None,
      FinalOutput("billing"),
      FinalOutput(" Technical\n"),
      FinalOutput("general"),
      FinalOutput("There was an error in the app"),
      Str("billing"),
      Obj(NoAttrs, DebugRepr),
      FinalOutput(TooManyWords),
      BlankMessages(1) }

ResponderEnvelopes ==
    { None,
      FinalOutput("Try reinstalling."),
      Str("Try reinstalling."),
      Dict(<< <<"output_text", Str("Try reinstalling.")>> >>),
      Obj(NoAttrs, DebugRepr),
      BlankMessages(2) }

\* envelopes of a reviewer that passes its input through unchanged
EchoShapes == {"plain", "final_output"}

Echo(shape, x) == IF shape = "plain" THEN Str(x) ELSE FinalOutput(x)

GuardrailEnvelopes(candidate) ==
    { None,
      FinalOutput("Please contact support."),
      Obj(NoAttrs, DebugRepr),
      BlankMessages(1),
      BlankMessages(2) }
    \cup { Echo(sh, candidate) : sh \in EchoShapes }

FaultMessages == {"Connection error.", ""}

ProbeIdle ==
    /\ probe_pc = "idle"
    /\ run_result = None
    /\ extracted = Returned("")

FlowLocalsUnbound ==
    /\ awaiting = ""
    /\ triage_run = Unbound
    /\ triage_text = ""
    /\ selected_agent = ""
    /\ agent_run = Unbound
    /\ agent_reply = ""
    /\ guard_run = Unbound
    /\ final = ""
    /\ exc = NoExc
    /\ outcome = "running"
    /\ result = ""
    /\ calls = <<>>

\* entry of run_support_flow(user_input, ctx), line 210
Init ==
    /\ pc = "Start"
    /\ user_input \in UserInputs
    /\ ctx \in Contexts
    /\ FlowLocalsUnbound
    /\ ProbeIdle

\* the except clause of lines 265-266 taken with exception e
Handle(e) ==
    /\ exc' = e
    /\ outcome' = OnException(e).outcome
    /\ result' = OnException(e).result
    /\ pc' = "Done"
    /\ awaiting' = ""

\* line 213: Runner.run(triage_agent, ...) is invoked and awaited
InvokeTriage ==
    /\ pc = "Start" /\ awaiting = ""
    /\ awaiting' = TriageAgent
    /\ calls' = Append(calls, TriageAgent)
    /\ UNCHANGED <<pc, ctx, user_input, triage_run, triage_text, selected_agent,
                   agent_run, agent_reply, guard_run, final, exc, outcome, result>>
    /\ UNCHANGED probeVars

\* lines 218-227 with x what extract_text(triage_run) did
Classified(x) ==
    IF x.raised
    THEN /\ Handle(Exc("extract_text", x.text))
         /\ UNCHANGED triage_text
    ELSE /\ triage_text' = Classify(x.text, user_input)
         /\ pc' = "Classified"
         /\ awaiting' = ""
         /\ UNCHANGED <<exc, outcome, result>>

\* lines 213-227: the triage call returns env
TriageReturns(env) ==
    /\ pc = "Start" /\ awaiting = TriageAgent
    /\ triage_run' = env
    /\ Classified(extract_text(env))
    /\ UNCHANGED <<ctx, user_input, selected_agent, agent_run, agent_reply,
                   guard_run, final, calls>>
    /\ UNCHANGED probeVars

\* lines 229-235
Route ==
    /\ pc = "Classified"
    /\ selected_agent' = select_agent(triage_text)
    /\ pc' = "Routed"
    /\ UNCHANGED <<awaiting, ctx, user_input, triage_run, triage_text, agent_run,
                   agent_reply, guard_run, final, exc, outcome, result, calls>>
    /\ UNCHANGED probeVars

\* line 238: Runner.run(selected_agent, ...) is invoked and awaited
InvokeResponder ==
    /\ pc = "Routed" /\ awaiting = ""
    /\ awaiting' = selected_agent
    /\ calls' = Append(calls, selected_agent)
    /\ UNCHANGED <<pc, ctx, user_input, triage_run, triage_text, selected_agent,
                   agent_run, agent_reply, guard_run, final, exc, outcome, result>>
    /\ UNCHANGED probeVars

\* a flow that returns the candidate reply without the guardrail review
Responded_skipguard(x) ==
    /\ agent_reply' = ResponderStage(x.text)
    /\ pc' = "Reviewed"
    /\ awaiting' = ""
    /\ UNCHANGED <<exc, outcome, result>>

\* lines 243-250 with x what extract_text(agent_run) did
Responded(x) ==
    IF x.raised
    THEN /\ Handle(Exc("extract_text", x.text))
         /\ UNCHANGED agent_reply
    ELSE /\ agent_reply' = ResponderStage(x.text)
         /\ pc' = "Responded"
         /\ awaiting' = ""
         /\ UNCHANGED <<exc, outcome, result>>

\* lines 238-250: the responder call returns env
ResponderReturns(env) ==
    /\ pc = "Routed" /\ awaiting = selected_agent
    /\ agent_run' = env
    /\ Responded(extract_text(env))
    /\ UNCHANGED <<ctx, user_input, triage_run, triage_text, selected_agent,
                   guard_run, final, calls>>
    /\ UNCHANGED probeVars

\* line 253: Runner.run(guardrail_agent, input=agent_reply, ...) is invoked
InvokeGuardrail ==
    /\ pc = "Responded" /\ awaiting = ""
    /\ awaiting' = GuardrailAgent
    /\ calls' = Append(calls, GuardrailAgent)
    /\ UNCHANGED <<pc, ctx, user_input, triage_run, triage_text, selected_agent,
                   agent_run, agent_reply, guard_run, final, exc, outcome, result>>
    /\ UNCHANGED probeVars

\* lines 258-261 with x what extract_text(guard_run) did
Reviewed(x) ==
    IF x.raised
    THEN /\ Handle(Exc("extract_text", x.text))
         /\ UNCHANGED final
    ELSE /\ final' = GuardrailStage(x.text, agent_reply)
         /\ pc' = "Reviewed"
         /\ awaiting' = ""
         /\ UNCHANGED <<exc, outcome, result>>

\* lines 253-261: the guardrail call returns env
GuardrailReturns(env) ==
    /\ pc = "Responded" /\ awaiting = GuardrailAgent
    /\ guard_run' = env
    /\ Reviewed(extract_text(env))
    /\ UNCHANGED <<ctx, user_input, triage_run, triage_text, selected_agent,
                   agent_run, agent_reply, calls>>
    /\ UNCHANGED probeVars

\* line 263
Return ==
    /\ pc = "Reviewed"
    /\ result' = final
    /\ outcome' = "returned"
    /\ pc' = "Done"
    /\ UNCHANGED <<awaiting, ctx, user_input, triage_run, triage_text,
                   selected_agent, agent_run, agent_reply, guard_run, final, exc,
                   calls>>
    /\ UNCHANGED probeVars

\* lines 265-266: the awaited call raises an exception whose str() is msg
CallRaises(msg) ==
    /\ awaiting # ""
    /\ Handle(Exc(awaiting, msg))
    /\ UNCHANGED <<ctx, user_input, triage_run, triage_text, selected_agent,
                   agent_run, agent_reply, guard_run, final, calls>>
    /\ UNCHANGED probeVars

Next ==
    \/ InvokeTriage
    \/ \E env \in TriageEnvelopes : TriageReturns(env)
    \/ Route
    \/ InvokeResponder
    \/ \E env \in ResponderEnvelopes : ResponderReturns(env)
    \/ InvokeGuardrail
    \/ \E env \in GuardrailEnvelopes(agent_reply) : GuardrailReturns(env)
    \/ Return
    \/ \E msg \in FaultMessages : CallRaises(msg)

Spec == Init /\ [][Next]_vars

---------------------------------------------------------------------------
(* A direct call of extract_text on a generated envelope. *)

\* all sequences over S of length at most n
SeqsUpTo(S, n) == UNION { [1..k -> S] : k \in 0..n }

FragmentTexts == {"  ", "ok"}

\* fragments of a message's content list: plain strings, dicts carrying a
\* str or a number under "text", a dict carrying a str under "content"
Fragments ==
    { Str(t) : t \in FragmentTexts }
    \cup { Dict(<< <<"text", Str(t)>> >>) : t \in FragmentTexts }
    \cup { Dict(<< <<"text", Num("5")>> >>), Dict(<< <<"content", Str(" hi ")>> >>) }

FragmentLists == SeqsUpTo(Fragments, MaxFragments)

\* a dict-style and an object-style message with content list fs
DictMessage(fs) == Dict(<< <<"content", List(fs)>> >>)

ObjectMessage(fs) == Obj([content |-> List(fs)], "<Message>")

\* the messages that generated message lists are made of
Messages ==
    { Dict(<< <<"content", Str(" Hello ")>> >>),
      DictMessage(<< BlankFragment >>),
      ObjectMessage(<< Dict(<< <<"text", Num("5")>> >>) >>),
      Obj([text |-> Str("Hi")], "<Message>"),
      Str("raw") }

\* an envelope whose messages attribute is the list ms
WithMessages(ms) == Obj([messages |-> List(ms)], "<Result object>")

MessageEnvelopes ==
    { WithMessages(<< DictMessage(fs) >>) : fs \in FragmentLists }
    \cup { WithMessages(<< ObjectMessage(fs) >>) : fs \in FragmentLists }
    \cup { WithMessages(ms) : ms \in SeqsUpTo(Messages, MaxMessages) }
    \cup { Obj([messages |-> None], "<Result object>"),
           Obj([messages |-> List(<< Dict(<< <<"content", Str("Hello")>> >>) >>),
                output |-> Str(" ")], DebugRepr) }

\* the mapping of Scenario B
ScenarioBEnvelope == Dict(<< <<"output_text", Str("Try reinstalling.")>> >>)

OtherEnvelopes ==
    { None,
      Str(""), Str("  "), Str("billing"), Str("say \"hi\"\n"),
      ScenarioBEnvelope, Dict(<<>>),
      List(<<>>), List(<< Str("a"), Num("5"), None >>),
      FinalOutput("Try reinstalling."),
      Obj([output_text |-> Str(" Try reinstalling.\n")], "<Result object>"),
      Obj([final_output |-> Str("  "), text |-> Str(" second ")], DebugRepr),
      Obj([output |-> Dict(<< <<"content", Str(" inner ")>> >>)], DebugRepr),
      Obj([output |-> Dict(<< <<"data", Num("5")>> >>)], DebugRepr),
      Obj([output |-> Dict(<< <<"data", Obj(NoAttrs, "<Item>")>> >>),
           reply |-> Str("later")], DebugRepr),
      Obj([output |-> List(<< Str(" a "), Dict(<< <<"text", Str("b")>>, <<"message", Str("c")>> >>) >>)],
          DebugRepr),
      Obj([output |-> List(<<>>)], "<Result object>"),
      Obj(NoAttrs, DebugRepr),
      Obj(NoAttrs, "  ") }

ProbeEnvelopes == MessageEnvelopes \cup OtherEnvelopes

InitExtract ==
    /\ probe_pc = "call"
    /\ run_result \in ProbeEnvelopes
    /\ extracted = Returned("")
    /\ pc = "Idle"
    /\ user_input = ""
    /\ ctx = [name |-> "", is_premium |-> FALSE]
    /\ FlowLocalsUnbound

\* extract_text(run_result) runs to its return or raise
ExtractCall ==
    /\ probe_pc = "call"
    /\ extracted' = extract_text(run_result)
    /\ probe_pc' = "returned"
    /\ UNCHANGED run_result
    /\ UNCHANGED flowVars

NextExtract == ExtractCall

SpecExtract == InitExtract /\ [][NextExtract]_vars

---------------------------------------------------------------------------
(* Properties of run_support_flow. *)

Responders == {BillingAgent, TechnicalAgent, GeneralAgent}

\* the text extracted from an envelope the flow received
TextOf(env) == extract_text(env).text

\* empty, or carrying the internal-leak marker in any letter case
EmptyOrLeak(t) == t = "" \/ Contains("runresult", lower(t))

\* C1: whatever the user text, the context and the outcomes of the three
\* calls, run_support_flow can always take a step until it is in Done, which
\* is its only final position; there it has returned a non-empty string, and
\* it never ends by raising to its caller.
C1_AlwaysReturnsReply ==
    /\ outcome # "raised"
    /\ pc = "Done" => outcome = "returned" /\ result # ""
    /\ pc # "Done" => outcome = "running" /\ ENABLED Next

C1_Witness ==
    /\ pc = "Done" /\ outcome = "returned" /\ result # ""
    /\ triage_run = None
    /\ exc.raised /\ exc.by = GuardrailAgent

\* C2: a fault raised by a collaborator call short-circuits the flow: the
\* faulting call is the last one made, and the returned string is the fixed
\* error prefix followed by the fault's description, never a normal reply.
C2_FaultShortCircuits ==
    (pc = "Done" /\ exc.raised) =>
        /\ outcome = "returned"
        /\ result = "An internal error occurred while processing your request."
                    \o " (" \o exc.msg \o ")"
        /\ calls # <<>> /\ calls[Len(calls)] = exc.by
        /\ result \notin {agent_reply, final}
        /\ (exc.by = TriageAgent => agent_run = Unbound /\ guard_run = Unbound)
        /\ (exc.by \in Responders => guard_run = Unbound)

C2_Witness ==
    /\ pc = "Done" /\ exc.raised /\ exc.by \in Responders
    /\ exc.msg = "Connection error."
    /\ result = "An internal error occurred while processing your request. (Connection error.)"

\* C3: the guardrail fails open: when the reviewer's extracted text is empty
\* or carries the leak marker, the final reply is the candidate reply
\* unchanged, and a non-empty candidate never becomes an empty final reply.
C3_GuardrailFailsOpen ==
    pc = "Reviewed" =>
        /\ (EmptyOrLeak(TextOf(guard_run)) => final = agent_reply)
        /\ (agent_reply # "" => final # "")

C3_Witness ==
    /\ pc = "Reviewed"
    /\ guard_run = BlankMessages(1) /\ TextOf(guard_run) = ""
    /\ agent_reply = "Try reinstalling." /\ final = agent_reply

\* C4: when the triage output is rejected (empty, more than 50 words, or
\* carrying the leak marker) the responder is decided by the lower-cased
\* user text alone: billing keywords first, then technical keywords, else
\* general; exactly one responder is selected in every case.
C4_FallbackByUserText ==
    pc = "Routed" =>
        /\ selected_agent \in Responders
        /\ (\/ TextOf(triage_run) = ""
            \/ WordCount(TextOf(triage_run)) > 50
            \/ Contains("runresult", lower(TextOf(triage_run))))
           => selected_agent =
                IF \E k \in BillingKeywords : Contains(k, lower(user_input))
                THEN BillingAgent
                ELSE IF \E k \in TechnicalKeywords : Contains(k, lower(user_input))
                     THEN TechnicalAgent
                     ELSE GeneralAgent

C4_Witness ==
    /\ pc = "Routed"
    /\ user_input = "Payment page shows an error"
    /\ WordCount(TextOf(triage_run)) > 50
    /\ selected_agent = BillingAgent

\* C9: when the responder's extracted text is empty or carries the leak
\* marker the candidate reply is the fixed safe fallback message, whichever
\* responder was selected; otherwise it is the extracted text unchanged.
C9_ResponderFallback ==
    pc = "Responded" =>
        agent_reply =
            IF EmptyOrLeak(TextOf(agent_run))
            THEN "I cannot access your private account here. "
                 \o "To check your account balance, please sign into the web portal -> Account -> Balance, "
                 \o "or contact billing support at billing@example.com with your account id."
            ELSE TextOf(agent_run)

C9_Witness ==
    /\ pc = "Responded"
    /\ selected_agent = TechnicalAgent
    /\ agent_run = Obj(NoAttrs, DebugRepr)
    /\ Contains("runresult", lower(TextOf(agent_run)))
    /\ agent_reply = SafeFallbackReply

PcOrder == <<"Start", "Classified", "Routed", "Responded", "Reviewed", "Done">>

\* calls made once the flow is at position p with nothing awaited
CallsBefore(p) ==
    CASE p = "Start" -> 0
      [] p \in {"Classified", "Routed"} -> 1
      [] p = "Responded" -> 2
      [] OTHER -> 3

\* C10: the calls of one request are, in order, triage, the selected
\* responder, the guardrail, one per stage and none repeated; a call starts
\* only after the previous one returned its envelope; the flow moves
\* Start, Classified, Routed, Responded, Reviewed, Done one step at a time,
\* except that a fault goes straight to Done.
C10_StrictSequence ==
    /\ [][pc' # pc =>
            \/ \E i \in 1..5 : pc = PcOrder[i] /\ pc' = PcOrder[i + 1]
            \/ pc' = "Done" /\ exc'.raised]_vars
    /\ [][calls' # calls => awaiting = "" /\ calls' = Append(calls, awaiting')]_vars
    /\ [](\A i \in 1..Len(calls) :
            calls[i] = <<TriageAgent, selected_agent, GuardrailAgent>>[i])
    /\ [](Len(calls) <= 3)
    /\ [](pc # "Done" =>
            Len(calls) = CallsBefore(pc) + (IF awaiting # "" THEN 1 ELSE 0))
    /\ [](Len(calls) >= 2 => triage_run # Unbound /\ selected_agent \in Responders)
    /\ [](Len(calls) >= 3 => agent_run # Unbound)

C10_Witness ==
    /\ pc = "Done" /\ ~exc.raised
    /\ calls = <<TriageAgent, TechnicalAgent, GuardrailAgent>>
    /\ guard_run # Unbound

\* the guardrail stage run on candidate x with a reviewer that returns its
\* input unchanged, in envelope shape sh
review(x, sh) == GuardrailStage(TextOf(Echo(sh, x)), x)

\* C8: with a reviewer that returns its input unchanged, reviewing the
\* reviewed reply again changes nothing: review(review(x)) = review(x).
C8_ReviewIdempotent ==
    \A sh \in EchoShapes :
        (pc = "Reviewed" /\ guard_run = Echo(sh, agent_reply)) =>
            /\ final = review(agent_reply, sh)
            /\ review(final, sh) = final

---------------------------------------------------------------------------
(* Properties of extract_text. *)

\* C5: for the mapping with output_text = "Try reinstalling." extract_text
\* returns exactly "Try reinstalling.", not a serialization of the mapping.
C5_ScenarioB ==
    (probe_pc = "returned" /\ run_result = ScenarioBEnvelope) =>
        extracted = Returned("Try reinstalling.")

\* C6: extract_text returns a string and never raises; an error met while
\* traversing the message list is swallowed and the later strategies run.
C6_ExtractTotal ==
    probe_pc = "returned" =>
        /\ ~extracted.raised
        /\ (~KnownFieldProbe(run_result).found /\ MessageListBody(run_result).raised)
           => extracted = Returned(OrElse(JsonProbe(run_result), LastResort(run_result)).text)

C6_Witness ==
    /\ probe_pc = "returned"
    /\ MessageListBody(run_result).raised
    /\ extracted = Returned("<Result object>")

\* a strategy yields usable text when it finds text that is not blank
Usable(p) == p.found /\ strip(p.text) # ""

\* C7: extract_text returns an empty or blank string only if no strategy of
\* the cascade yields usable text; blank text collected by one strategy
\* counts as nothing, so the next strategy is tried.
C7_BlankOnlyIfNothingUsable ==
    (probe_pc = "returned" /\ run_result # None /\ strip(extracted.text) = "") =>
        /\ ~Usable(KnownFieldProbe(run_result))
        /\ ~Usable(MessageListProbe(run_result))
        /\ ~Usable(PatternProbe(run_result))
        /\ ~Usable(JsonProbe(run_result))
        /\ ~Usable(LastResort(run_result))

=============================================================================
